---- MODULE Spec2Model ----
(***************************************************************************)
(* Levenberg-Marquardt training (neupy/algorithms/gd/lev_marq.py) and the  *)
(* discrete-memory input validation (neupy/algorithms/memory/base.py).     *)
(*                                                                         *)
(* Numbers are exact rationals <<n, d>> in lowest terms with d > 0; the    *)
(* pair <<0, 0>> is NaN (numpy's np.nan): every comparison with it is      *)
(* false and every arithmetic operation on it gives NaN.  Rounding of the  *)
(* floating-point format is not modelled.                                  *)
(***************************************************************************)
EXTENDS Integers, Sequences, FiniteSets, TLC

----------------------------------------------------------------------------
(* Rational arithmetic                                                      *)

Abs(x) == IF x < 0 THEN -x ELSE x

RECURSIVE GCD(_, _)
GCD(a, b) == IF b = 0 THEN a ELSE GCD(b, a % b)

NaN == <<0, 0>>

IsNaN(x) == x[2] = 0

Rat(n, d) ==
    IF d = 0 THEN NaN
    ELSE LET g == GCD(Abs(n), Abs(d))
             s == IF d < 0 THEN -1 ELSE 1
         IN  <<(s * n) \div g, (s * d) \div g>>

Num(n) == <<n, 1>>

RAdd(x, y) ==
    IF IsNaN(x) \/ IsNaN(y) THEN NaN
    ELSE LET g == GCD(x[2], y[2])
         IN  Rat(x[1] * (y[2] \div g) + y[1] * (x[2] \div g), (x[2] \div g) * y[2])

RNeg(x) == IF IsNaN(x) THEN NaN ELSE <<-x[1], x[2]>>

RSub(x, y) == RAdd(x, RNeg(y))

RMul(x, y) ==
    IF IsNaN(x) \/ IsNaN(y) THEN NaN
    ELSE LET g1 == GCD(Abs(x[1]), y[2])
             g2 == GCD(Abs(y[1]), x[2])
         IN  Rat((x[1] \div g1) * (y[1] \div g2), (x[2] \div g2) * (y[2] \div g1))

RDiv(x, y) ==
    IF IsNaN(x) \/ IsNaN(y) \/ y[1] = 0 THEN NaN
    ELSE RMul(x, Rat(y[2], y[1]))

\* x < y; false when either side is NaN
RLt(x, y) == ~IsNaN(x) /\ ~IsNaN(y) /\ x[1] * y[2] < y[1] * x[2]

RLe(x, y) == ~IsNaN(x) /\ ~IsNaN(y) /\ x[1] * y[2] <= y[1] * x[2]

Zero == Num(0)

RECURSIVE RSum(_)
RSum(v) == IF v = <<>> THEN Zero ELSE RAdd(v[1], RSum(Tail(v)))

----------------------------------------------------------------------------
(* Dense vectors and matrices: a matrix is a sequence of rows               *)

\* the sequence a function over 1..n is, as an explicit tuple
Tup(f) == f \o <<>>

NRows(M) == Len(M)
NCols(M) == IF M = <<>> THEN 0 ELSE Len(M[1])

Transpose(M) == Tup([j \in 1..NCols(M) |-> Tup([i \in 1..NRows(M) |-> M[i][j]])])

Dot(u, v) == RSum(Tup([i \in 1..Len(u) |-> RMul(u[i], v[i])]))

MatMul(A, B) ==
    Tup([i \in 1..NRows(A) |-> Tup([j \in 1..NCols(B) |->
        RSum(Tup([k \in 1..NCols(A) |-> RMul(A[i][k], B[k][j])]))])])

MatVec(A, v) == Tup([i \in 1..NRows(A) |-> Dot(A[i], v)])

MatAdd(A, B) ==
    Tup([i \in 1..NRows(A) |-> Tup([j \in 1..NCols(A) |-> RAdd(A[i][j], B[i][j])])])

Scale(c, A) == Tup([i \in 1..NRows(A) |-> Tup([j \in 1..NCols(A) |-> RMul(c, A[i][j])])])

VecSub(u, v) == Tup([i \in 1..Len(u) |-> RSub(u[i], v[i])])

Eye(n) == Tup([i \in 1..n |-> Tup([j \in 1..n |-> IF i = j THEN Num(1) ELSE Zero])])

\* M without row i and column j
Minor(M, i, j) ==
    Tup([r \in 1..(NRows(M) - 1) |-> Tup([c \in 1..(NCols(M) - 1) |->
        M[IF r < i THEN r ELSE r + 1][IF c < j THEN c ELSE c + 1]])])

Sign(k) == IF k % 2 = 0 THEN Num(1) ELSE Num(-1)

RECURSIVE Det(_)
Det(M) ==
    IF NRows(M) = 0 THEN Num(1)
    ELSE IF NRows(M) = 1 THEN M[1][1]
    ELSE RSum(Tup([j \in 1..NCols(M) |->
             RMul(RMul(Sign(1 + j), M[1][j]), Det(Minor(M, 1, j)))]))

\* numpy.linalg.inv behind T.nlinalg.matrix_inverse: LinAlgError on a singular
\* matrix, else the inverse (adjugate over determinant)
matrix_inverse(M) ==
    LET d == Det(M)
    IN  IF d = Zero THEN [ok |-> FALSE, val |-> <<>>]
        ELSE [ok |-> TRUE,
              val |-> Tup([i \in 1..NRows(M) |-> Tup([j \in 1..NCols(M) |->
                         RDiv(RMul(Sign(i + j), Det(Minor(M, j, i))), d)])])]

----------------------------------------------------------------------------
(* Parameter tensors: [shape, val]; a 1-D tensor's val is a sequence of      *)
(* numbers, a 2-D tensor's val is a sequence of rows                         *)

Vec(v) == [shape |-> <<Len(v)>>, val |-> Tup([i \in 1..Len(v) |-> Num(v[i])])]

Mat(rows) ==
    [shape |-> <<Len(rows), Len(rows[1])>>,
     val |-> Tup([i \in 1..Len(rows) |->
                Tup([j \in 1..Len(rows[1]) |-> Num(rows[i][j])])])]

\* param.size
size(t) == IF Len(t.shape) = 1 THEN t.shape[1] ELSE t.shape[1] * t.shape[2]

RECURSIVE Concat(_)
Concat(ss) == IF ss = <<>> THEN <<>> ELSE ss[1] \o Concat(Tail(ss))

\* param.flatten(): row-major
flatten(t) == IF Len(t.shape) = 1 THEN t.val ELSE Concat(t.val)

\* T.reshape(v, shape): row-major
reshape(v, shape) ==
    IF Len(shape) = 1 THEN [shape |-> shape, val |-> v]
    ELSE [shape |-> shape,
          val |-> Tup([i \in 1..shape[1] |->
                     SubSeq(v, (i - 1) * shape[2] + 1, i * shape[2])])]

\* v[start_pos:end_pos]
Slice(v, start_pos, end_pos) == SubSeq(v, start_pos + 1, end_pos)

\* param_vector = T.concatenate([param.flatten() for param in params])
param_vector(ps) == Concat(Tup([k \in 1..Len(ps) |-> flatten(ps[k])]))

\* faulty variant: start_pos is not advanced after a parameter
RECURSIVE ParamSlicesNoAdvance(_, _)
ParamSlicesNoAdvance(ps, start_pos) ==
    IF ps = <<>> THEN <<>>
    ELSE LET end_pos == start_pos + size(ps[1])
         IN  <<<<start_pos, end_pos>>>> \o ParamSlicesNoAdvance(Tail(ps), start_pos)

\* the <<start_pos, end_pos>> of each parameter in the loop over params
RECURSIVE ParamSlices(_, _)
ParamSlices(ps, start_pos) ==
    IF ps = <<>> THEN <<>>
    ELSE LET end_pos == start_pos + size(ps[1])
         IN  <<<<start_pos, end_pos>>>> \o ParamSlices(Tail(ps), end_pos)

\* faulty variant: only the first parameter is given a new value
ParamUpdatesFirstOnly(ps, updated) ==
    LET sl == ParamSlices(ps, 0)
    IN  Tup([k \in 1..Len(ps) |->
               IF k = 1
               THEN reshape(Slice(updated, sl[k][1], sl[k][2]), ps[k].shape)
               ELSE ps[k]])

\* the new value of each parameter: its slice of updated_params, reshaped
ParamUpdates(ps, updated) ==
    LET sl == ParamSlices(ps, 0)
    IN  Tup([k \in 1..Len(ps) |->
               reshape(Slice(updated, sl[k][1], sl[k][2]), ps[k].shape)])

\* jaccobian(y, x): scan[k][i] is the gradient of y[i] with respect to x[k]
\* (the shape of x[k]); each is reshaped to (n_samples, param.size) and the
\* blocks are concatenated along axis 1
jaccobian(scan, x) ==
    LET n_samples == IF scan = <<>> THEN 0 ELSE Len(scan[1])
        jacc == Tup([k \in 1..Len(x) |-> Tup([i \in 1..n_samples |-> flatten(scan[k][i])])])
    IN  Tup([i \in 1..n_samples |-> Concat(Tup([k \in 1..Len(x) |-> jacc[k][i]]))])

----------------------------------------------------------------------------
(* The update rules of init_train_updates                                    *)

\* faulty variant: the comparison is not strict
new_mu_le(last_err, error_val, mu_val, factor) ==
    IF RLe(last_err, error_val) THEN RMul(mu_val, factor) ELSE RDiv(mu_val, factor)

new_mu(last_err, error_val, mu_val, factor) ==
    IF RLt(last_err, error_val) THEN RMul(mu_val, factor) ELSE RDiv(mu_val, factor)

\* err = T.mean((network_output - prediction_func) ** 2, axis=1)
Residual(network_output, prediction_func) ==
    Tup([i \in 1..NRows(network_output) |->
        RDiv(RSum(Tup([j \in 1..NCols(network_output) |->
                     LET d == RSub(network_output[i][j], prediction_func[i][j])
                     IN  RMul(d, d)])),
             Num(NCols(network_output)))])

\* the 'mse' error function: mean of the squared differences
error_func(network_output, prediction_func) ==
    RDiv(RSum(Concat(Tup([i \in 1..NRows(network_output) |->
                 Tup([j \in 1..NCols(network_output) |->
                     LET d == RSub(network_output[i][j], prediction_func[i][j])
                     IN  RMul(d, d)])]))),
         Num(NRows(network_output) * NCols(network_output)))

\* faulty variant: the damping term is left out of the matrix
updated_params_undamped(pvec, Jm, mu_new, errv) ==
    LET inv == matrix_inverse(MatMul(Transpose(Jm), Jm))
    IN  IF inv.ok
        THEN [ok |-> TRUE,
              val |-> VecSub(pvec, MatVec(MatMul(inv.val, Transpose(Jm)), errv))]
        ELSE [ok |-> FALSE, val |-> <<>>]

\* updated_params = param_vector - inv(J.T.dot(J) + new_mu * eye).dot(J.T).dot(err)
updated_params(pvec, Jm, mu_new, errv) ==
    LET n_params == NCols(Jm)
        inv == matrix_inverse(MatAdd(MatMul(Transpose(Jm), Jm),
                                     Scale(mu_new, Eye(n_params))))
    IN  IF inv.ok
        THEN [ok |-> TRUE,
              val |-> VecSub(pvec, MatVec(MatMul(inv.val, Transpose(Jm)), errv))]
        ELSE [ok |-> FALSE, val |-> <<>>]

----------------------------------------------------------------------------
(* Bounds and inputs                                                         *)

\* number of epochs whose training step is explored
MaxEpochs == 2

\* constructor options: <<>> is an option that is not given
Options ==
    { [mu |-> <<>>,           mu_update_factor |-> <<Num(1)>>],
      [mu |-> <<Rat(1, 2)>>,  mu_update_factor |-> <<>>],
      [mu |-> <<Zero>>,       mu_update_factor |-> <<>>],
      [mu |-> <<Rat(-1, 10)>>, mu_update_factor |-> <<>>],
      [mu |-> <<Rat(1, 2)>>,  mu_update_factor |-> <<Rat(1, 2)>>],
      [mu |-> <<Rat(-1, 10)>>, mu_update_factor |-> <<Rat(1, 2)>>] }

\* the networks trained: the parameter tensors of their layers
Connections == {"p1", "w11_b1", "w12"}

InitialParams(c) ==
    CASE c = "p1"     -> << Vec(<<1>>) >>
      [] c = "w11_b1" -> << Mat(<< <<1>> >>), Vec(<<0>>) >>
      [] c = "w12"    -> << Mat(<< <<1, 0>> >>) >>

\* what the scan over the samples can return for each network: per parameter,
\* per sample, the gradient of that sample's residual (two samples)
Scans(c) ==
    CASE c = "p1" ->
           { << <<Vec(<<1>>), Vec(<<1>>)>> >>,
             << <<Vec(<<0>>), Vec(<<0>>)>> >>,
             << <<Vec(<<1>>), Vec(<<0>>)>> >> }
      [] c = "w11_b1" ->
           { << <<Mat(<< <<0>> >>), Mat(<< <<0>> >>)>>, <<Vec(<<0>>), Vec(<<0>>)>> >>,
             << <<Mat(<< <<1>> >>), Mat(<< <<1>> >>)>>, <<Vec(<<1>>), Vec(<<1>>)>> >>,
             << <<Mat(<< <<1>> >>), Mat(<< <<0>> >>)>>, <<Vec(<<0>>), Vec(<<1>>)>> >> }
      [] c = "w12" ->
           { << <<Mat(<< <<0, 0>> >>), Mat(<< <<0, 0>> >>)>> >>,
             << <<Mat(<< <<1, 1>> >>), Mat(<< <<1, 1>> >>)>> >>,
             << <<Mat(<< <<1, 2>> >>), Mat(<< <<0, 0>> >>)>> >> }

\* the training batches: the target (network_output) and the network's
\* prediction (prediction_func), two samples of two outputs
Batches ==
    { [network_output  |-> << <<Rat(2, 5), Rat(1, 5)>>, <<Rat(2, 5), Rat(1, 5)>> >>,
       prediction_func |-> << <<Zero, Zero>>, <<Zero, Zero>> >>],
      [network_output  |-> << <<Num(1), Num(1)>>, <<Zero, Zero>> >>,
       prediction_func |-> << <<Zero, Zero>>, <<Zero, Zero>> >>],
      [network_output  |-> << <<Num(2), Num(1)>>, <<Num(1), Num(2)>> >>,
       prediction_func |-> << <<Num(1), Zero>>, <<Zero, Num(1)>> >>],
      [network_output  |-> << <<Num(2), Zero>>, <<Num(2), Zero>> >>,
       prediction_func |-> << <<Zero, Zero>>, <<Zero, Zero>> >>] }

NoCall == [network_output |-> <<>>, prediction_func |-> <<>>, scan |-> <<>>]

----------------------------------------------------------------------------
(* State                                                                     *)

VARIABLES
    pc,          \* "new", "rejected", "epoch_start", "train", "record", "failed"
    options,     \* the options given to the constructor
    connection,  \* the network given to the constructor
    self_mu,     \* the property self.mu
    self_factor, \* the property self.mu_update_factor
    params,      \* the layers' parameter tensors (shared variables)
    mu,          \* variables.mu (shared variable)
    last_error,  \* variables.last_error (shared variable)
    errors_in,   \* the training errors the network has recorded
    epoch,       \* the current epoch, from 1
    call,        \* the inputs of the last call of the compiled training function
    result,      \* what that call returned: the value of error_func
    matrix,      \* the argument of discrete_validation
    ret          \* the outcome of discrete_validation

vars == <<pc, options, connection, self_mu, self_factor, params, mu, last_error,
          errors_in, epoch, call, result, matrix, ret>>

mem_vars == <<matrix, ret>>

----------------------------------------------------------------------------
(* Construction                                                              *)

\* faulty variants: lower minimal values
mu_minval_negative == Num(-1)
mu_update_factor_minval_zero == Zero

mu_default == Rat(1, 100)
mu_minval == Zero
mu_update_factor_default == Num(5)
mu_update_factor_minval == Num(1)

\* BoundedProperty: the value given, or the default
PropertyValue(opt, default) == IF opt = <<>> THEN default ELSE opt[1]

\* BoundedProperty: a value below minval is rejected
PropertyValid(value, minval) == RLe(minval, value)

Init ==
    /\ pc = "new"
    /\ options \in Options
    /\ connection \in Connections
    /\ self_mu = NaN
    /\ self_factor = NaN
    /\ params = <<>>
    /\ mu = NaN
    /\ last_error = NaN
    /\ errors_in = <<>>
    /\ epoch = 0
    /\ call = NoCall
    /\ result = NaN
    /\ matrix = <<>>
    /\ ret = "none"

\* LevenbergMarquardt(connection, **options): the properties are validated,
\* then init_variables creates the shared variables mu and last_error
Construct ==
    /\ pc = "new"
    /\ LET m == PropertyValue(options.mu, mu_default)
           f == PropertyValue(options.mu_update_factor, mu_update_factor_default)
       IN  IF PropertyValid(m, mu_minval) /\ PropertyValid(f, mu_update_factor_minval)
           THEN /\ pc' = "epoch_start"
                /\ self_mu' = m
                /\ self_factor' = f
                /\ params' = InitialParams(connection)
                /\ mu' = m              \* asfloat(self.mu): exact here
                /\ last_error' = NaN
                /\ epoch' = 1
           ELSE /\ pc' = "rejected"
                /\ UNCHANGED <<self_mu, self_factor, params, mu, last_error, epoch>>
    /\ UNCHANGED <<options, connection, errors_in, call, result, mem_vars>>

----------------------------------------------------------------------------
(* Training                                                                  *)

\* BaseNetwork.last_error(): the last recorded training error, None (<<>>)
\* when none is recorded
network_last_error(errors) == IF errors = <<>> THEN <<>> ELSE <<errors[Len(errors)]>>

\* faulty variant: last_error is stored only while it still has its initial value
EpochStartUpdateOnce ==
    /\ pc = "epoch_start"
    /\ LET le == network_last_error(errors_in)
       IN  last_error' = IF le # <<>> /\ IsNaN(last_error) THEN le[1] ELSE last_error
    /\ pc' = "train"
    /\ UNCHANGED <<options, connection, self_mu, self_factor, params, mu,
                   errors_in, epoch, call, result, mem_vars>>

\* epoch_start_update(epoch)
EpochStartUpdate ==
    /\ pc = "epoch_start"
    /\ LET le == network_last_error(errors_in)
       IN  last_error' = IF le # <<>> THEN le[1] ELSE last_error
    /\ pc' = "train"
    /\ UNCHANGED <<options, connection, self_mu, self_factor, params, mu,
                   errors_in, epoch, call, result, mem_vars>>

\* one call of the function compiled from init_train_updates: every update is
\* computed from the values before the call and they are written together; an
\* exception in the computation (the inverse) writes nothing
\* faulty variant: the matrix is damped with mu as it was before this step's update
TrainUpdatesOldMu(b, s) ==
    LET error_val == error_func(b.network_output, b.prediction_func)
        mu_new == new_mu(last_error, error_val, mu, self_factor)
        errv == Residual(b.network_output, b.prediction_func)
        Jm == jaccobian(s, params)
        upd == updated_params(param_vector(params), Jm, mu, errv)
    IN  /\ call' = [network_output |-> b.network_output,
                    prediction_func |-> b.prediction_func, scan |-> s]
        /\ IF upd.ok
           THEN /\ mu' = mu_new
                /\ params' = ParamUpdates(params, upd.val)
                /\ result' = error_val
                /\ pc' = "record"
           ELSE /\ pc' = "failed"
                /\ UNCHANGED <<mu, params, result>>

TrainUpdates(b, s) ==
    LET error_val == error_func(b.network_output, b.prediction_func)
        mu_new == new_mu(last_error, error_val, mu, self_factor)
        errv == Residual(b.network_output, b.prediction_func)
        Jm == jaccobian(s, params)
        upd == updated_params(param_vector(params), Jm, mu_new, errv)
    IN  /\ call' = [network_output |-> b.network_output,
                    prediction_func |-> b.prediction_func, scan |-> s]
        /\ IF upd.ok
           THEN /\ mu' = mu_new
                /\ params' = ParamUpdates(params, upd.val)
                /\ result' = error_val
                /\ pc' = "record"
           ELSE /\ pc' = "failed"
                /\ UNCHANGED <<mu, params, result>>

TrainEpoch ==
    /\ pc = "train"
    /\ epoch <= MaxEpochs
    /\ \E b \in Batches, s \in Scans(connection) : TrainUpdates(b, s)
    /\ UNCHANGED <<options, connection, self_mu, self_factor, last_error,
                   errors_in, epoch, mem_vars>>

\* the training loop records the epoch's error and goes to the next epoch
RecordError ==
    /\ pc = "record"
    /\ errors_in' = Append(errors_in, result)
    /\ epoch' = epoch + 1
    /\ pc' = "epoch_start"
    /\ UNCHANGED <<options, connection, self_mu, self_factor, params, mu,
                   last_error, call, result, mem_vars>>

Next == Construct \/ EpochStartUpdate \/ TrainEpoch \/ RecordError

Spec == Init /\ [][Next]_vars

----------------------------------------------------------------------------
(* Flattening and slicing on their own: parameter sets of every shape up to *)
(* MaxDim, each element labelled by its parameter and position               *)

MaxDim == 2

Shapes == {<<a>> : a \in 1..MaxDim} \cup {<<a, b>> : a \in 1..MaxDim, b \in 1..MaxDim}

ShapeLists ==
    {<<s1>> : s1 \in Shapes} \cup
    {<<s1, s2>> : s1 \in Shapes, s2 \in Shapes} \cup
    {<<s1, s2, s3>> : s1 \in Shapes, s2 \in Shapes, s3 \in Shapes}

\* the tensor of this shape whose element at i (or i, j) is c * (100k + 10i + j)
Labelled(shape, k, c) ==
    IF Len(shape) = 1
    THEN [shape |-> shape,
          val |-> Tup([i \in 1..shape[1] |-> Num(c * (100 * k + 10 * i))])]
    ELSE [shape |-> shape,
          val |-> Tup([i \in 1..shape[1] |-> Tup([j \in 1..shape[2] |->
                     Num(c * (100 * k + 10 * i + j))])])]

LabelledParams(shapes) == Tup([k \in 1..Len(shapes) |-> Labelled(shapes[k], k, 1)])

\* the scan's result for y[i] = i * sum(p ** 2) / 2: sample i's gradient with
\* respect to a parameter is i times the parameter
LabelledScan(shapes) ==
    Tup([k \in 1..Len(shapes) |-> Tup([i \in 1..2 |-> Labelled(shapes[k], k, i)])])

FlatInit ==
    /\ pc = "flat"
    /\ \E shapes \in ShapeLists :
         /\ params = LabelledParams(shapes)
         /\ call = [network_output |-> <<>>, prediction_func |-> <<>>,
                    scan |-> LabelledScan(shapes)]
    /\ options = [mu |-> <<>>, mu_update_factor |-> <<>>]
    /\ connection = "flat"
    /\ self_mu = NaN
    /\ self_factor = NaN
    /\ mu = NaN
    /\ last_error = NaN
    /\ errors_in = <<>>
    /\ epoch = 0
    /\ result = NaN
    /\ matrix = <<>>
    /\ ret = "none"

\* the parameters are flattened and written back from their slices (the
\* updates of a step whose delta is zero)
Reslice ==
    /\ pc = "flat"
    /\ params' = ParamUpdates(params, param_vector(params))
    /\ pc' = "resliced"
    /\ UNCHANGED <<options, connection, self_mu, self_factor, mu, last_error,
                   errors_in, epoch, call, result, mem_vars>>

FlatSpec == FlatInit /\ [][Reslice]_vars

----------------------------------------------------------------------------
(* DiscreteMemory.discrete_validation                                        *)

MemDim == 2
MaxVal == 2

\* np_any((matrix != 0) & (matrix != 1)) raises ValueError; otherwise the
\* method ends without a return statement
discrete_validation(m) ==
    IF \E i \in 1..Len(m) : \E j \in 1..Len(m[i]) : (m[i][j] # 0) /\ (m[i][j] # 1)
    THEN "ValueError"
    ELSE "None"

MemInit ==
    /\ pc = "validate"
    /\ matrix \in [1..MemDim -> [1..MemDim -> -1..MaxVal]]
    /\ ret = "none"
    /\ options = [mu |-> <<>>, mu_update_factor |-> <<>>]
    /\ connection = "memory"
    /\ self_mu = NaN
    /\ self_factor = NaN
    /\ params = <<>>
    /\ mu = NaN
    /\ last_error = NaN
    /\ errors_in = <<>>
    /\ epoch = 0
    /\ call = NoCall
    /\ result = NaN

DiscreteValidation ==
    /\ pc = "validate"
    /\ ret' = discrete_validation(matrix)
    /\ pc' = "validated"
    /\ UNCHANGED <<options, connection, self_mu, self_factor, params, mu,
                   last_error, errors_in, epoch, call, result, matrix>>

MemSpec == MemInit /\ [][DiscreteValidation]_vars

----------------------------------------------------------------------------
(* Properties                                                                *)

Constructed == pc \in {"epoch_start", "train", "record", "failed"}

\* the Jacobian, residual vector and scalar error of the last training call
CallJ == jaccobian(call.scan, params)
CallErr == Residual(call.network_output, call.prediction_func)
CallError == error_func(call.network_output, call.prediction_func)

Ones21 == << <<Num(1)>>, <<Num(1)>> >>

\* C1: after the first training step (no error recorded before it), mu equals
\* the configured initial mu.
C1_FirstStepKeepsMu ==
    (pc = "record" /\ epoch = 1) => mu = self_mu

\* the damping rule, with the division stated as a multiplication
DampingRuleHolds(le, cur, factor, mu_old, mu_written) ==
    LET increased == le[1] * cur[2] < cur[1] * le[2]
    IN  /\ increased => mu_written = RMul(mu_old, factor)
        /\ ~increased => RMul(mu_written, factor) = mu_old
        /\ (le = Num(1) /\ factor = Num(5) /\ mu_old = Rat(1, 10)) =>
             /\ cur = Num(2) => mu_written = Rat(1, 2)
             /\ cur = Rat(1, 2) => mu_written = Rat(1, 50)
             /\ cur = Num(1) => mu_written = Rat(1, 50)

C3_MuPositive == Constructed => RLt(Zero, mu)

\* C3 (amended): mu >= 0 in every state of a constructed optimizer, and a
\* configured mu of 0 stays 0; nothing but the multiply/divide rule writes mu.
C3_MuNonNegative ==
    Constructed => /\ RLe(Zero, mu)
                   /\ self_mu = Zero => mu = Zero

\* C3 witness: a run configured with mu = 0 that has trained two epochs.
C3_Witness == pc = "epoch_start" /\ epoch = 3 /\ self_mu = Zero /\ mu = Zero

SolveOutcomeHolds(used, Jm, outcome, ps, ps_after) ==
    /\ RLt(Zero, used) => outcome = "record"
    /\ (used = Zero /\ Det(MatMul(Transpose(Jm), Jm)) = Zero) =>
         (outcome = "failed" /\ ps_after = ps)

\* C5: the solve of a step does not fail when the damping factor it uses is
\* > 0, whatever the Jacobian; it fails, and writes no parameters, when that
\* damping factor is 0 and J^T J is singular.
C5_SolveOutcome ==
    [][(pc = "train" /\ pc' \in {"record", "failed"}) =>
        SolveOutcomeHolds(
            new_mu(last_error, error_func(call'.network_output, call'.prediction_func),
                   mu, self_factor),
            jaccobian(call'.scan, params), pc', params, params')
      ]_vars

\* C5 witness: a step with a rank-deficient Jacobian and a damping factor > 0
\* has succeeded.
C5_Witness ==
    /\ pc = "record"
    /\ RLt(Zero, mu)
    /\ Det(MatMul(Transpose(CallJ), CallJ)) = Zero

\* every parameter holds its slice of the updated vector; a step is all or nothing
AllWritten(ps, ps_after, upd) ==
    /\ upd.ok
    /\ Len(ps_after) = Len(ps)
    /\ \A k \in 1..Len(ps) :
         /\ ps_after[k].shape = ps[k].shape
         /\ flatten(ps_after[k]) =
              SubSeq(upd.val,
                     Len(param_vector(SubSeq(ps, 1, k - 1))) + 1,
                     Len(param_vector(SubSeq(ps, 1, k))))

StepAtomicHolds(used, c, outcome, ps, ps_after, mu_old, mu_after, le, le_after) ==
    \/ /\ outcome = "failed"
       /\ ps_after = ps /\ mu_after = mu_old /\ le_after = le
    \/ /\ outcome = "record"
       /\ mu_after = used
       /\ AllWritten(ps, ps_after,
                     updated_params(param_vector(ps), jaccobian(c.scan, ps), used,
                                    Residual(c.network_output, c.prediction_func)))

\* C6: a step either replaces every parameter tensor and mu by values computed
\* from the pre-step parameters and mu, or fails and leaves the parameters, mu
\* and last_error as they were.
C6_StepAtomic ==
    [][pc = "train" =>
        StepAtomicHolds(
            new_mu(last_error, error_func(call'.network_output, call'.prediction_func),
                   mu, self_factor),
            call', pc', params, params', mu, mu', last_error, last_error')
      ]_vars

\* C6 witness: a successful step of the two-parameter network in which both
\* parameters and mu changed.
C6_Witness ==
    /\ pc = "record" /\ connection = "w11_b1" /\ epoch = 1
    /\ params[1] # InitialParams("w11_b1")[1]
    /\ params[2] # InitialParams("w11_b1")[2]
    /\ mu # self_mu

\* C7: the slices [start_pos, end_pos) taken in parameter order are contiguous
\* from 0, each as long as its parameter, and end at P, the length of the
\* flattened vector and the number of columns of the Jacobian; each
\* parameter's slice of a Jacobian row is that sample's gradient for it; each
\* parameter's slice of the flattened vector, reshaped, is the parameter; and
\* writing the slices back leaves every parameter as it was.
C7_FlattenUnflatten ==
    LET n == Len(params)
        sl == ParamSlices(params, 0)
        vec == param_vector(params)
        Jm == jaccobian(call.scan, params)
        P == RSum(Tup([k \in 1..n |-> Num(size(params[k]))]))[1]
    IN  pc \in {"flat", "resliced"} =>
        /\ Len(sl) = n
        /\ sl[1][1] = 0
        /\ \A k \in 1..n : sl[k][2] - sl[k][1] = size(params[k])
        /\ \A k \in 2..n : sl[k][1] = sl[k - 1][2]
        /\ sl[n][2] = P
        /\ Len(vec) = P
        /\ \A i \in 1..Len(Jm) : Len(Jm[i]) = P
        /\ \A k \in 1..n : \A i \in 1..Len(Jm) :
             reshape(Slice(Jm[i], sl[k][1], sl[k][2]), params[k].shape) = call.scan[k][i]
        /\ \A k \in 1..n :
             reshape(Slice(vec, sl[k][1], sl[k][2]), params[k].shape) = params[k]
        /\ \A k \in 1..n : params[k] = Labelled(params[k].shape, k, 1)

\* C7 witness: a 2x2 matrix, a vector of 2 and a 1x2 matrix have been
\* flattened and written back.
C7_Witness ==
    /\ pc = "resliced"
    /\ Len(params) = 3
    /\ params[1].shape = <<2, 2>> /\ params[2].shape = <<2>> /\ params[3].shape = <<1, 2>>
    /\ params[3].val[1][2] = Num(312)

\* the damped normal equations and the worked example
NormalEquationsHold(A, Jm, errv, old, new) ==
    /\ Det(A) # Zero
    /\ MatVec(A, VecSub(old, new)) = MatVec(Transpose(Jm), errv)

StepSolves(Jm, errv, mu_written, old, new) ==
    /\ NormalEquationsHold(
         MatAdd(MatMul(Transpose(Jm), Jm), Scale(mu_written, Eye(NCols(Jm)))),
         Jm, errv, old, new)
    /\ (Jm = Ones21 /\ errv = <<Rat(1, 10), Rat(1, 10)>> /\ mu_written = Zero) =>
         new[1] = RSub(old[1], Rat(1, 10))

\* C8: after a successful step, delta = old vector - new vector solves the
\* damped normal equations (J^T J + mu I) delta = J^T residual with the mu
\* written by this step, and that system has one solution; for J = [[1],[1]],
\* residual = [0.1, 0.1] and mu = 0 the new parameter is the old one minus 0.1.
C8_DampedGaussNewtonStep ==
    [][(pc = "train" /\ pc' = "record") =>
        StepSolves(jaccobian(call'.scan, params),
                   Residual(call'.network_output, call'.prediction_func),
                   mu', param_vector(params), param_vector(params'))
      ]_vars

\* C8 witness: the first step of the one-parameter network with J = [[1],[1]],
\* residual = [0.1, 0.1] and mu = 0: the parameter went from 1 to 0.9.
C8_Witness ==
    /\ pc = "record" /\ connection = "p1" /\ epoch = 1
    /\ mu = Zero
    /\ CallJ = Ones21
    /\ CallErr = <<Rat(1, 10), Rat(1, 10)>>
    /\ params[1].val[1] = Rat(9, 10)

\* C9: in every epoch k > 1 the stored last_error used by the step is the
\* scalar error recorded for epoch k - 1, which is that epoch's scalar error;
\* in epoch 1, with no error recorded, the stored last_error keeps its initial
\* value.
C9_LastErrorIsPreviousError ==
    /\ (pc \in {"train", "record", "failed"} /\ epoch > 1) =>
          /\ Len(errors_in) = epoch - 1
          /\ last_error = errors_in[epoch - 1]
    /\ (pc \in {"epoch_start", "train", "record", "failed"} /\ epoch = 1) =>
          /\ errors_in = <<>>
          /\ IsNaN(last_error)
    /\ (pc = "epoch_start" /\ epoch > 1) =>
          /\ Len(errors_in) = epoch - 1
          /\ errors_in[epoch - 1] = CallError

\* C9 witness: the third epoch is about to train with the second epoch's error
\* stored, which differs from the first epoch's.
C9_Witness ==
    /\ pc = "train" /\ epoch = 3
    /\ last_error = errors_in[2]
    /\ errors_in[1] # errors_in[2]

\* C10: discrete_validation returns True when every value is 0 or 1 and False
\* otherwise.
C10_ReturnsBool ==
    pc = "validated" =>
        ret = IF \A i \in 1..MemDim : \A j \in 1..MemDim : matrix[i][j] \in {0, 1}
              THEN "True" ELSE "False"

====
